---- MODULE Spec2Model ----
(***************************************************************************)
(* A model of src/main.py, the data-pipeline dependency mapper.            *)
(*                                                                         *)
(* Strings are sequences of characters (one-character TLA+ strings); a few *)
(* multi-letter words that the program never looks inside ("sql", "py",    *)
(* "pipeline", the header names) are written as one symbol of the          *)
(* alphabet.  Python's None is the value None below, which is no string.   *)
(* A dict is a function whose DOMAIN is the set of its keys.               *)
(***************************************************************************)
EXTENDS Integers, Sequences, FiniteSets, TLC

\* -------------------------------------------------------------------------
\* Bounds of the model
\* -------------------------------------------------------------------------
MaxCatalog == 2
MaxList == 2
MaxSize == 8
MaxRows == 2
MaxFiles == 2
MaxLines == 4
MaxProbeLen == 4

\* -------------------------------------------------------------------------
\* Python values and small helpers
\* -------------------------------------------------------------------------
None == <<"None">>

Range(s) == {s[i] : i \in 1..Len(s)}

SeqsUpTo(S, n) == UNION {[1..k -> S] : k \in 0..n}

RECURSIVE Flatten(_)
Flatten(ss) == IF ss = <<>> THEN <<>> ELSE Head(ss) \o Flatten(Tail(ss))

\* s[i..] of Python, 1-based here
Suffix(s, i) == SubSeq(s, i, Len(s))

\* s[i:].startswith(prefix), 1-based
StartsWithAt(s, i, prefix) ==
    i + Len(prefix) - 1 <= Len(s) /\ SubSeq(s, i, i + Len(prefix) - 1) = prefix

\* `needle in hay` for two strings
Contains(hay, needle) ==
    \E i \in 0..(Len(hay) - Len(needle)) :
        SubSeq(hay, i + 1, i + Len(needle)) = needle

\* bool(x) for the values the program tests: None and '' are falsy
Truthy(x) == x # None /\ x # <<>>

\* any(list)
PyAny(list) == \E i \in 1..Len(list) : Truthy(list[i])


\* -------------------------------------------------------------------------
\* Characters
\* -------------------------------------------------------------------------
COMMA == ","
QUOTE == "\""
CR == "\r"
LF == "\n"

\* The characters of the model in code-point order (what sorted() compares)
AsciiOrder == <<
    "\t", "\n", "\r", " ", "\"", "#", "'", "*", ",", "-", ".", "/",
    "0", "1", "2", "3", "4", "5", "6", "7", "8", "9", ":", "@", "A",
    "B", "C", "D", "E", "F", "G", "H", "I", "J", "K", "L", "M", "N",
    "O", "P", "Q", "R", "S", "T", "U", "V", "W", "X", "Y", "Z", "[",
    "\\", "]", "_", "a", "b", "c", "d", "e", "f", "g", "h", "i", "j",
    "k", "l", "m", "n", "o", "p", "q", "r", "s", "t", "u", "v", "w",
    "x", "y", "z"
>>

UpperCase == <<
    "A", "B", "C", "D", "E", "F", "G", "H", "I", "J", "K", "L", "M",
    "N", "O", "P", "Q", "R", "S", "T", "U", "V", "W", "X", "Y", "Z"
>>

LowerCase == <<
    "a", "b", "c", "d", "e", "f", "g", "h", "i", "j", "k", "l", "m",
    "n", "o", "p", "q", "r", "s", "t", "u", "v", "w", "x", "y", "z"
>>

Digits == {"0", "1", "2", "3", "4", "5", "6", "7", "8", "9"}

\* Words the program never takes apart, written as one symbol
WordSymbols ==
    {"pipeline", "sales", "sql", "py", "yaml", "table_list", "load", "safe_", "open"}

\* [a-zA-Z_]
KeyChars == Range(UpperCase) \cup Range(LowerCase) \cup WordSymbols \cup {"_"}

IsKeyChar(c) == c \in KeyChars

\* \w
IsWordChar(c) == IsKeyChar(c) \/ c \in Digits

\* [\w\.-]
IsEmailChar(c) == IsWordChar(c) \/ c \in {".", "-"}

\* \s, and what str.strip() removes
IsSpace(c) == c \in {" ", "\t", "\n", "\r"}

OrdOf == [c \in Range(AsciiOrder) |-> CHOOSE i \in 1..Len(AsciiOrder) : AsciiOrder[i] = c]

Ord(c) == OrdOf[c]

LowerOf ==
    [c \in Range(UpperCase) |->
       LowerCase[CHOOSE i \in 1..Len(UpperCase) : UpperCase[i] = c]]

ToLower(c) == IF c \in DOMAIN LowerOf THEN LowerOf[c] ELSE c

LowerStr(s) == [i \in 1..Len(s) |-> ToLower(s[i])]

\* a < b for two strings, as Python compares them
RECURSIVE StrLess(_, _)
StrLess(a, b) ==
    IF b = <<>> THEN FALSE
    ELSE IF a = <<>> THEN TRUE
    ELSE IF Head(a) = Head(b) THEN StrLess(Tail(a), Tail(b))
    ELSE Ord(Head(a)) < Ord(Head(b))

\* sorted(list(S)) for a set of strings
RECURSIVE Sorted(_)
Sorted(S) ==
    IF S = {} THEN <<>>
    ELSE LET m == CHOOSE x \in S : \A y \in S \ {x} : StrLess(x, y)
         IN  <<m>> \o Sorted(S \ {m})

\* first index >= i of s that does not satisfy the class (Len(s) + 1 if none)
RECURSIVE SkipSpace(_, _)
SkipSpace(s, i) == IF i <= Len(s) /\ IsSpace(s[i]) THEN SkipSpace(s, i + 1) ELSE i

RECURSIVE SkipKey(_, _)
SkipKey(s, i) == IF i <= Len(s) /\ IsKeyChar(s[i]) THEN SkipKey(s, i + 1) ELSE i

RECURSIVE SkipEmail(_, _)
SkipEmail(s, i) == IF i <= Len(s) /\ IsEmailChar(s[i]) THEN SkipEmail(s, i + 1) ELSE i

RECURSIVE LastNonSpace(_, _)
LastNonSpace(s, i) == IF i >= 1 /\ IsSpace(s[i]) THEN LastNonSpace(s, i - 1) ELSE i

\* str.strip()
Strip(s) == SubSeq(s, SkipSpace(s, 1), LastNonSpace(s, Len(s)))

\* -------------------------------------------------------------------------
\* Path helpers
\* -------------------------------------------------------------------------
\* pathlib splits a path at '/' everywhere and at '\' as well on Windows
Separators(platform) == IF platform = "nt" THEN {"/", "\\"} ELSE {"/"}

\* On Windows a leading drive ("C:") is no part of the file name
DriveLen(platform, s) ==
    IF platform = "nt" /\ Len(s) >= 2 /\ s[2] = ":"
       /\ s[1] \in Range(UpperCase) \cup Range(LowerCase)
    THEN 2 ELSE 0

RECURSIVE SplitPath(_, _, _, _)
SplitPath(s, i, cur, seps) ==
    IF i > Len(s) THEN (IF cur = <<>> THEN <<>> ELSE <<cur>>)
    ELSE IF s[i] \in seps
         THEN (IF cur = <<>> THEN <<>> ELSE <<cur>>) \o SplitPath(s, i + 1, <<>>, seps)
         ELSE SplitPath(s, i + 1, Append(cur, s[i]), seps)

\* Path(p).parts without the drive and root: the components, '.' and empty
\* ones dropped
PathParts(platform, s) ==
    SelectSeq(SplitPath(Suffix(s, DriveLen(platform, s) + 1), 1, <<>>,
                        Separators(platform)),
              LAMBDA c : c # <<".">>)

RECURSIVE LastDot(_, _)
LastDot(name, i) == IF i >= 1 /\ name[i] # "." THEN LastDot(name, i - 1) ELSE i

\* Path(filepath).stem: the last component without its last suffix
get_filename_from_path(platform, filepath) ==
    LET parts == PathParts(platform, filepath)
        name == IF parts = <<>> THEN <<>> ELSE parts[Len(parts)]
        i == LastDot(name, Len(name))
    IN  IF 1 < i /\ i < Len(name) THEN SubSeq(name, 1, i - 1) ELSE name

AnchorFolder == <<"pipeline">>

\* the component after the first component "pipeline", or None
get_first_subfolder_from_anchor(platform, file_path) ==
    LET parts == PathParts(platform, file_path)
    IN  IF \E k \in 1..Len(parts) : parts[k] = AnchorFolder
        THEN LET anchor_index == CHOOSE k \in 1..Len(parts) :
                                     /\ parts[k] = AnchorFolder
                                     /\ \A m \in 1..(k - 1) : parts[m] # AnchorFolder
             IN  IF anchor_index + 1 <= Len(parts) THEN parts[anchor_index + 1]
                 ELSE None
        ELSE None

target_str == <<"\\", "pipeline">>

\* the stripped path from its first "\pipeline" on, or the stripped path
format_path_to_relative(filepath) ==
    LET clean_filepath == Strip(filepath)
    IN  IF Contains(clean_filepath, target_str)
        THEN LET index == CHOOSE i \in 1..Len(clean_filepath) :
                              /\ StartsWithAt(clean_filepath, i, target_str)
                              /\ \A m \in 1..(i - 1) :
                                     ~StartsWithAt(clean_filepath, m, target_str)
             IN  Suffix(clean_filepath, index)
        ELSE clean_filepath

\* -------------------------------------------------------------------------
\* Owner extraction (extract_owners_from_file)
\* -------------------------------------------------------------------------
owner_tag == <<"o", "w", "n", "e", "r", ":">>

\* owner_tag_pattern.search(line), re.IGNORECASE
owner_tag_pattern(line) == Contains(LowerStr(line), owner_tag)

\* (\*\*|#)? at position i: the position after it
AfterMarker(s, i) ==
    IF i + 1 <= Len(s) /\ s[i] = "*" /\ s[i + 1] = "*" THEN i + 2
    ELSE IF i <= Len(s) /\ s[i] = "#" THEN i + 1
    ELSE i

\* new_section_pattern with \w+ for the key, digits included
new_section_pattern_WordKey(s) ==
    LET WordEnd(i) ==
            IF \E k \in i..Len(s) : ~IsWordChar(s[k])
            THEN CHOOSE k \in i..Len(s) :
                    ~IsWordChar(s[k]) /\ \A m \in i..(k - 1) : IsWordChar(s[m])
            ELSE Len(s) + 1
        i3 == SkipSpace(s, AfterMarker(s, SkipSpace(s, 1)))
        i4 == WordEnd(i3)
    IN  /\ i4 > i3
        /\ i4 <= Len(s)
        /\ s[i4] = ":"
        /\ SkipSpace(s, AfterMarker(s, SkipSpace(s, i4 + 1))) = Len(s) + 1

\* new_section_pattern.match(s): ^\s*(\*\*|#)?\s*[a-zA-Z_]+:\s*(\*\*|#)?\s*$
\* The classes of neighbouring parts are disjoint, so the greedy scan decides.
new_section_pattern(s) ==
    LET i3 == SkipSpace(s, AfterMarker(s, SkipSpace(s, 1)))
        i4 == SkipKey(s, i3)
    IN  /\ i4 > i3
        /\ i4 <= Len(s)
        /\ s[i4] = ":"
        /\ SkipSpace(s, AfterMarker(s, SkipSpace(s, i4 + 1))) = Len(s) + 1

\* email_pattern.findall(s): [\w\.-]+@[\w\.-]+, leftmost, not overlapping
RECURSIVE email_pattern(_, _)
email_pattern(s, i) ==
    IF i > Len(s) THEN <<>>
    ELSE IF ~IsEmailChar(s[i]) THEN email_pattern(s, i + 1)
    ELSE LET j == SkipEmail(s, i)
         IN  IF j + 1 <= Len(s) /\ s[j] = "@" /\ IsEmailChar(s[j + 1])
             THEN LET k == SkipEmail(s, j + 1)
                  IN  <<SubSeq(s, i, k - 1)>> \o email_pattern(s, k)
             ELSE email_pattern(s, j)

\* The inner loop: lines j, j+1, ... until a new section or the end.
\* Yields the pairs <<j, emails of line j>> of the lines it harvested.
RECURSIVE ScanBlock(_, _)
ScanBlock(lines, j) ==
    IF j > Len(lines) THEN <<>>
    ELSE IF new_section_pattern(Strip(lines[j])) THEN <<>>
    ELSE <<<<j, email_pattern(lines[j], 1)>>>> \o ScanBlock(lines, j + 1)

\* OwnerBlocks with the scan starting on the line of the tag itself
OwnerBlocks_FromTagLine(lines) ==
    SelectSeq([i \in 1..Len(lines) |->
                  IF owner_tag_pattern(lines[i])
                  THEN <<i, ScanBlock(lines, i)>> ELSE <<0, <<>>>>],
              LAMBDA b : b[1] # 0)

\* OwnerBlocks that stops after the first owner tag
OwnerBlocks_FirstOnly(lines) ==
    LET tags == {i \in 1..Len(lines) : owner_tag_pattern(lines[i])}
    IN  IF tags = {} THEN <<>>
        ELSE LET i == CHOOSE n \in tags : \A m \in tags : n <= m
             IN  <<<<i, ScanBlock(lines, i + 1)>>>>

\* The outer loop: one block per line that holds the owner tag.
\* Yields <<i, ScanBlock from i + 1>> for every such line i, in order.
OwnerBlocks(lines) ==
    SelectSeq([i \in 1..Len(lines) |->
                  IF owner_tag_pattern(lines[i])
                  THEN <<i, ScanBlock(lines, i + 1)>> ELSE <<0, <<>>>>],
              LAMBDA b : b[1] # 0)

\* owner_emails after the loops
OwnerEmailsOf(blocks) ==
    Flatten([b \in 1..Len(blocks) |->
               Flatten([k \in 1..Len(blocks[b][2]) |-> blocks[b][2][k][2]])])

\* f.readlines(): every line keeps its line break
ReadLines(file_lines) == [i \in 1..Len(file_lines) |-> file_lines[i] \o <<LF>>]

\* the result for the lines read: sorted(list(set(owner_emails))) or []
OwnersOfLines(lines) ==
    LET owner_emails == OwnerEmailsOf(OwnerBlocks(lines))
    IN  IF owner_emails # <<>> THEN Sorted(Range(owner_emails)) ELSE <<>>

\* str(list of str): "['a', 'b']"
RECURSIVE ReprItems(_)
ReprItems(l) ==
    IF l = <<>> THEN <<>>
    ELSE <<"'">> \o Head(l) \o <<"'">>
         \o (IF Len(l) > 1 THEN <<",", " ">> ELSE <<>>) \o ReprItems(Tail(l))

StrOfList(l) == <<"[">> \o ReprItems(l) \o <<"]">>

\* -------------------------------------------------------------------------
\* The csv module of the standard library, dialect "excel":
\* delimiter ',', quotechar '"', doublequote, lineterminator '\r\n',
\* QUOTE_MINIMAL, not strict.
\* -------------------------------------------------------------------------

\* csv.writer: a field is quoted when it holds a delimiter, a quote or a
\* character of the line terminator; a quote inside it is doubled.
CsvNeedsQuote(f) == \E i \in 1..Len(f) : f[i] \in {COMMA, QUOTE, CR, LF}

CsvDoubleQuotes(f) ==
    Flatten([i \in 1..Len(f) |-> IF f[i] = QUOTE THEN <<QUOTE, QUOTE>> ELSE <<f[i]>>])

\* None is written as the empty field
CsvField(f) ==
    IF f = None THEN <<>>
    ELSE IF CsvNeedsQuote(f) THEN <<QUOTE>> \o CsvDoubleQuotes(f) \o <<QUOTE>>
    ELSE f

RECURSIVE CsvJoin(_)
CsvJoin(fs) ==
    IF fs = <<>> THEN <<>>
    ELSE IF Len(fs) = 1 THEN Head(fs)
    ELSE Head(fs) \o <<COMMA>> \o CsvJoin(Tail(fs))

\* writer.writerow: a row of one empty field is written as ""
CsvWriteRow(row) ==
    (IF Len(row) = 1 /\ CsvField(row[1]) = <<>> THEN <<QUOTE, QUOTE>>
     ELSE CsvJoin([i \in 1..Len(row) |-> CsvField(row[i])]))
    \o <<CR, LF>>

\* writer.writerows
CsvWriteRows(rows) == Flatten([i \in 1..Len(rows) |-> CsvWriteRow(rows[i])])

\* One character through the reader's state machine (Reader_iternext /
\* parse_process_char of _csv.c).  p = [st, field, fields].
CsvSave(p, st) == [st |-> st, field |-> <<>>, fields |-> Append(p.fields, p.field)]

CsvAdd(p, c, st) == [p EXCEPT !.st = st, !.field = Append(p.field, c)]

CsvChar(p, c) ==
    CASE p.st \in {"START_RECORD", "START_FIELD"} ->
           IF p.st = "START_RECORD" /\ c \in {CR, LF} THEN [p EXCEPT !.st = "EAT_CRNL"]
           ELSE IF c \in {CR, LF} THEN CsvSave(p, "EAT_CRNL")
           ELSE IF c = QUOTE THEN [p EXCEPT !.st = "IN_QUOTED_FIELD"]
           ELSE IF c = COMMA THEN CsvSave(p, "START_FIELD")
           ELSE CsvAdd(p, c, "IN_FIELD")
      [] p.st = "IN_FIELD" ->
           IF c \in {CR, LF} THEN CsvSave(p, "EAT_CRNL")
           ELSE IF c = COMMA THEN CsvSave(p, "START_FIELD")
           ELSE CsvAdd(p, c, "IN_FIELD")
      [] p.st = "IN_QUOTED_FIELD" ->
           IF c = QUOTE THEN [p EXCEPT !.st = "QUOTE_IN_QUOTED_FIELD"]
           ELSE CsvAdd(p, c, "IN_QUOTED_FIELD")
      [] p.st = "QUOTE_IN_QUOTED_FIELD" ->
           IF c = QUOTE THEN CsvAdd(p, c, "IN_QUOTED_FIELD")
           ELSE IF c = COMMA THEN CsvSave(p, "START_FIELD")
           ELSE IF c \in {CR, LF} THEN CsvSave(p, "EAT_CRNL")
           ELSE CsvAdd(p, c, "IN_FIELD")
      [] OTHER -> p  \* EAT_CRNL: the rest of the line is CR or LF

\* The end of a physical line
CsvEol(p) ==
    CASE p.st \in {"START_FIELD", "IN_FIELD", "QUOTE_IN_QUOTED_FIELD"} ->
           CsvSave(p, "START_RECORD")
      [] p.st = "EAT_CRNL" -> [p EXCEPT !.st = "START_RECORD"]
      [] OTHER -> p

\* A file opened with newline="" yields lines that end after '\n', after
\* '\r\n', after a lone '\r', or at the end of the file.
CsvLineEndsAt(text, i) ==
    \/ text[i] = LF
    \/ text[i] = CR /\ (i = Len(text) \/ text[i + 1] # LF)
    \/ i = Len(text)

CsvStart == [st |-> "START_RECORD", field |-> <<>>, fields |-> <<>>]

CsvLineEnds(text) == {i \in 1..Len(text) : CsvLineEndsAt(text, i)}

\* the k-th line the file object yields, ends being the line ends of the text
CsvLineOf(text, ends, k) ==
    LET EndOf(n) == CHOOSE e \in ends : Cardinality({x \in ends : x <= e}) = n
    IN  SubSeq(text, IF k = 1 THEN 1 ELSE EndOf(k - 1) + 1, EndOf(k))

\* the characters lo..hi of a line through the state machine, one after the
\* other (the halves are only there to keep the evaluation shallow)
RECURSIVE CsvChars(_, _, _, _)
CsvChars(line, lo, hi, p) ==
    IF lo > hi THEN p
    ELSE IF lo = hi THEN CsvChar(p, line[lo])
    ELSE LET mid == (lo + hi) \div 2
             left == CsvChars(line, lo, mid, p)
         IN  IF left.st = "" THEN left  \* never: makes left a value before going on
             ELSE CsvChars(line, mid + 1, hi, left)

\* one line through the state machine
CsvFeed(line, p) == CsvEol(CsvChars(line, 1, Len(line), p))

\* line after line; a record ends with the line that leaves the reader in
\* START_RECORD, and a quoted field goes on into the next line
RECURSIVE CsvScan(_, _, _, _, _)
CsvScan(text, ends, k, p, rows) ==
    IF k > Cardinality(ends)
    THEN IF p.st = "START_RECORD" THEN rows
         ELSE Append(rows, Append(p.fields, p.field))
    ELSE LET r == CsvFeed(CsvLineOf(text, ends, k), p)
         IN  IF r.st = "START_RECORD"
             THEN CsvScan(text, ends, k + 1, CsvStart, Append(rows, r.fields))
             ELSE CsvScan(text, ends, k + 1, r, rows)

\* list(csv.reader(file))
CsvRead(text) == CsvScan(text, CsvLineEnds(text), 1, CsvStart, <<>>)

\* -------------------------------------------------------------------------
\* The state of a run
\* -------------------------------------------------------------------------
VARIABLES
    pc,                          \* the statement of __main__ that runs next
    platform,                    \* os.name: decides how pathlib splits paths
    fs,                          \* the files under pipeline_file_path, in os.walk order
    input_csv,                   \* the catalog csv: Missing, or its text
    dags_times_csv,              \* the execution-time csv: [status, rows]
    external_table_names,        \* dict returned by the loader
    sql_file_paths,              \* table -> [sql path]
    py_file_paths,               \* sql path -> [script path]
    py_file_paths_by_table_name, \* table -> [script path]
    yaml_files,                  \* '.yaml' -> [script path]
    yaml_airflow_file_paths,     \* script path -> [config path]
    dags_times_dict,             \* dag id -> execution time (line 457)
    dags_time,                   \* the same, read again (line 462)
    rows_to_write,               \* the rows write_to_csv built
    row_tags,                    \* for each of them, the loop indices that made it
    output_csv,                  \* the report file: Missing, or its text
    mlist,                       \* the rows read back
    owner_file,                  \* owner extraction alone: the file, [status, lines]
    owner_blocks,                \* the lines each owner tag made the scan visit
    owner_emails                 \* the list extract_owners_from_file returned

vars == <<pc, platform, fs, input_csv, dags_times_csv, external_table_names,
          sql_file_paths, py_file_paths, py_file_paths_by_table_name, yaml_files,
          yaml_airflow_file_paths, dags_times_dict, dags_time, rows_to_write,
          row_tags, output_csv, mlist, owner_file, owner_blocks, owner_emails>>

envVars == <<platform, fs, input_csv, dags_times_csv>>

mapVars == <<external_table_names, sql_file_paths, py_file_paths,
             py_file_paths_by_table_name, yaml_files, yaml_airflow_file_paths,
             dags_times_dict>>

ownerVars == <<owner_file, owner_blocks, owner_emails>>

\* A file that does not exist
Missing == <<"Missing">>

\* A variable the run has not assigned yet
Unset == <<"Unset">>

\* The empty dict
EmptyDict == [k \in {} |-> <<>>]

\* dict.get(key, default)
get_paths(source_dict, key, default_value) ==
    IF key \in DOMAIN source_dict THEN source_dict[key] ELSE default_value

\* os.path.join(subdir, file)
PathSep(pf) == IF pf = "nt" THEN "\\" ELSE "/"

FilePath(pf, f) == f.dir \o <<PathSep(pf)>> \o f.name

\* f.read(): the lines with their line breaks
FileText(f) == Flatten(ReadLines(f.lines))

\* extract_owners_from_file(filepath): [] when the file cannot be read
extract_owners_from_file(pf, tree, filepath) ==
    IF \E n \in 1..Len(tree) : FilePath(pf, tree[n]) = filepath /\ tree[n].readable
    THEN LET f == tree[CHOOSE n \in 1..Len(tree) : FilePath(pf, tree[n]) = filepath]
         IN  OwnersOfLines(ReadLines(f.lines))
    ELSE <<>>

\* -------------------------------------------------------------------------
\* The loaders and the scanners
\* -------------------------------------------------------------------------
\* A file that exists and cannot be read
Unreadable == <<"Unreadable">>

EndsWith(s, suffix) ==
    Len(s) >= Len(suffix) /\ SubSeq(s, Len(s) - Len(suffix) + 1, Len(s)) = suffix

\* lines 22-25: one name per data row of three columns or more
TableNamesOf(rows) ==
    LET wide == SelectSeq(rows, LAMBDA row : Len(row) >= 3)
    IN  [k \in 1..Len(wide) |-> Strip(wide[k][2]) \o <<".">> \o Strip(wide[k][3])]

\* get_external_table_names_from_csv(filepath), called at line 430.
\* next(reader) on a file without any record raises StopIteration, which
\* the except clause of line 27 does not catch.
GetExternalTableNamesFromCsv ==
    /\ pc = "get_external_table_names_from_csv"
    /\ IF input_csv \in {Missing, Unreadable}
       THEN /\ external_table_names' = EmptyDict
            /\ pc' = "find_strings_in_sql_files"
       ELSE IF CsvRead(input_csv) = <<>>
       THEN /\ pc' = "aborted"
            /\ UNCHANGED external_table_names
       ELSE /\ external_table_names' =
                  [k \in {"external_table_names"} |->
                     TableNamesOf(Tail(CsvRead(input_csv)))]
            /\ pc' = "find_strings_in_sql_files"
    /\ UNCHANGED <<envVars, ownerVars, sql_file_paths, py_file_paths,
                   py_file_paths_by_table_name, yaml_files, yaml_airflow_file_paths,
                   dags_times_dict, dags_time, rows_to_write, row_tags, output_csv,
                   mlist>>

\* external_table_names.get('external_table_names') is None
NamesIsNone == "external_table_names" \notin DOMAIN external_table_names

\* external_table_names.get('external_table_names') otherwise
NamesArgument == external_table_names["external_table_names"]

\* lines 48-50 and 181-183: the loop over search_data for one file; every
\* entry of search_data found in the text appends the path once more
AppendPerEntry(results, search_data, text, file_path) ==
    [k \in DOMAIN results |->
       results[k] \o [n \in 1..Cardinality({m \in 1..Len(search_data) :
                                              search_data[m] = k /\ Contains(text, k)})
                      |-> file_path]]

\* WalkSql that reads table_list.sql like any other .sql file
RECURSIVE WalkSql_WithTableList(_, _, _, _, _)
WalkSql_WithTableList(pf, tree, n, search_data, results) ==
    IF n > Len(tree) THEN results
    ELSE LET f == tree[n]
         IN  IF EndsWith(f.name, <<".", "sql">>) /\ f.readable
             THEN WalkSql_WithTableList(pf, tree, n + 1, search_data,
                          AppendPerEntry(results, search_data, FileText(f),
                                         FilePath(pf, f)))
             ELSE WalkSql_WithTableList(pf, tree, n + 1, search_data, results)

\* lines 41-52: the walk over the tree, file by file
RECURSIVE WalkSql(_, _, _, _, _)
WalkSql(pf, tree, n, search_data, results) ==
    IF n > Len(tree) THEN results
    ELSE LET f == tree[n]
         IN  IF /\ EndsWith(f.name, <<".", "sql">>)
                /\ f.name # <<"table_list", ".", "sql">>
                /\ f.readable
             THEN WalkSql(pf, tree, n + 1, search_data,
                          AppendPerEntry(results, search_data, FileText(f),
                                         FilePath(pf, f)))
             ELSE WalkSql(pf, tree, n + 1, search_data, results)

\* find_strings_in_sql_files(search_data, root_path)
find_strings_in_sql_files(pf, tree, search_data) ==
    WalkSql(pf, tree, 1, search_data, [k \in Range(search_data) |-> <<>>])

\* line 434.  Iterating None (the loader returned {}) raises TypeError.
FindStringsInSqlFiles ==
    /\ pc = "find_strings_in_sql_files"
    /\ IF NamesIsNone
       THEN /\ pc' = "aborted"
            /\ UNCHANGED sql_file_paths
       ELSE /\ sql_file_paths' = find_strings_in_sql_files(platform, fs, NamesArgument)
            /\ pc' = "find_dict_strings_in_py_files"
    /\ UNCHANGED <<envVars, ownerVars, external_table_names, py_file_paths,
                   py_file_paths_by_table_name, yaml_files, yaml_airflow_file_paths,
                   dags_times_dict, dags_time, rows_to_write, row_tags, output_csv,
                   mlist>>

\* AppendOncePerKey that appends the script once per occurrence of the stem
AppendOncePerKey_PerOccurrence(pf, results, text, file_path) ==
    [k \in DOMAIN results |->
       results[k] \o
         [n \in 1..Cardinality({i \in 1..Len(text) :
                                  StartsWithAt(text, i, get_filename_from_path(pf, k))})
          |-> file_path]]

\* lines 155-160: the loop over results.keys() for one script
AppendOncePerKey(pf, results, text, file_path) ==
    [k \in DOMAIN results |->
       IF /\ Contains(text, get_filename_from_path(pf, k))
          /\ file_path \notin Range(results[k])
       THEN Append(results[k], file_path)
       ELSE results[k]]

RECURSIVE WalkDict(_, _, _, _)
WalkDict(pf, tree, n, results) ==
    IF n > Len(tree) THEN results
    ELSE LET f == tree[n]
         IN  IF EndsWith(f.name, <<".", "py">>) /\ f.readable
             THEN WalkDict(pf, tree, n + 1,
                           AppendOncePerKey(pf, results, FileText(f), FilePath(pf, f)))
             ELSE WalkDict(pf, tree, n + 1, results)

\* line 143: the values of search_data, one after the other
all_search_strings(search_data) ==
    UNION {Range(search_data[k]) : k \in DOMAIN search_data}

\* find_dict_strings_in_py_files(search_data, root_path)
find_dict_strings_in_py_files(pf, tree, search_data) ==
    LET results == WalkDict(pf, tree, 1,
                            [k \in all_search_strings(search_data) |-> <<>>])
        found == {k \in DOMAIN results : results[k] # <<>>}
    IN  [k \in found |-> results[k]]

\* line 438
FindDictStringsInPyFiles ==
    /\ pc = "find_dict_strings_in_py_files"
    /\ py_file_paths' = find_dict_strings_in_py_files(platform, fs, sql_file_paths)
    /\ pc' = "find_list_strings_in_py_files"
    /\ UNCHANGED <<envVars, ownerVars, external_table_names, sql_file_paths,
                   py_file_paths_by_table_name, yaml_files, yaml_airflow_file_paths,
                   dags_times_dict, dags_time, rows_to_write, row_tags, output_csv,
                   mlist>>

RECURSIVE WalkList(_, _, _, _, _)
WalkList(pf, tree, n, search_data, results) ==
    IF n > Len(tree) THEN results
    ELSE LET f == tree[n]
         IN  IF EndsWith(f.name, <<".", "py">>) /\ f.readable
             THEN WalkList(pf, tree, n + 1, search_data,
                           AppendPerEntry(results, search_data, FileText(f),
                                          FilePath(pf, f)))
             ELSE WalkList(pf, tree, n + 1, search_data, results)

\* find_list_strings_in_py_files(search_data, root_path)
find_list_strings_in_py_files(pf, tree, search_data) ==
    WalkList(pf, tree, 1, search_data, [k \in Range(search_data) |-> <<>>])

\* line 442
FindListStringsInPyFiles ==
    /\ pc = "find_list_strings_in_py_files"
    /\ IF NamesIsNone
       THEN /\ pc' = "aborted"
            /\ UNCHANGED py_file_paths_by_table_name
       ELSE /\ py_file_paths_by_table_name' =
                  find_list_strings_in_py_files(platform, fs, NamesArgument)
            /\ pc' = "find_yaml_files"
    /\ UNCHANGED <<envVars, ownerVars, external_table_names, sql_file_paths,
                   py_file_paths, yaml_files, yaml_airflow_file_paths,
                   dags_times_dict, dags_time, rows_to_write, row_tags, output_csv,
                   mlist>>

DotYaml == <<".", "yaml">>

\* line 446
FindYamlFiles ==
    /\ pc = "find_yaml_files"
    /\ yaml_files' = find_list_strings_in_py_files(platform, fs, <<DotYaml>>)
    /\ pc' = "find_yaml_paths_in_files"
    /\ UNCHANGED <<envVars, ownerVars, external_table_names, sql_file_paths,
                   py_file_paths, py_file_paths_by_table_name,
                   yaml_airflow_file_paths, dags_times_dict, dags_time,
                   rows_to_write, row_tags, output_csv, mlist>>

\* yaml\.(?:safe_)?load\(open\(['\"]  at position i: the position of the
\* quote, or 0
YamlCallAt(text, i) ==
    LET plain == <<"yaml", ".", "load", "(", "open", "(">>
        safe == <<"yaml", ".", "safe_", "load", "(", "open", "(">>
        q == IF StartsWithAt(text, i, plain) THEN i + 6
             ELSE IF StartsWithAt(text, i, safe) THEN i + 7
             ELSE 0
    IN  IF q # 0 /\ q <= Len(text) /\ text[q] \in {"'", QUOTE} THEN q ELSE 0

\* (.*?)['\"] from position j: the position of the closing quote, or 0 when
\* the line ends first
RECURSIVE ClosingQuote(_, _)
ClosingQuote(text, j) ==
    IF j > Len(text) \/ text[j] = LF THEN 0
    ELSE IF text[j] \in {"'", QUOTE} THEN j
    ELSE ClosingQuote(text, j + 1)

\* pattern.findall(content)
RECURSIVE YamlFindAll(_, _)
YamlFindAll(text, i) ==
    IF i > Len(text) THEN <<>>
    ELSE LET q == YamlCallAt(text, i)
             c == IF q = 0 THEN 0 ELSE ClosingQuote(text, q + 1)
         IN  IF c # 0
             THEN <<SubSeq(text, q + 1, c - 1)>> \o YamlFindAll(text, c + 1)
             ELSE YamlFindAll(text, i + 1)

\* find_yaml_paths_in_files(py_files): a script that cannot be read keeps []
find_yaml_paths_in_files(pf, tree, py_files) ==
    [k \in Range(py_files) |->
       IF \E n \in 1..Len(tree) : FilePath(pf, tree[n]) = k /\ tree[n].readable
       THEN YamlFindAll(
              FileText(tree[CHOOSE n \in 1..Len(tree) : FilePath(pf, tree[n]) = k]), 1)
       ELSE <<>>]

\* line 453
FindYamlPathsInFiles ==
    /\ pc = "find_yaml_paths_in_files"
    /\ yaml_airflow_file_paths' =
          find_yaml_paths_in_files(platform, fs, get_paths(yaml_files, DotYaml, None))
    /\ pc' = "create_dict_from_csv"
    /\ UNCHANGED <<envVars, ownerVars, external_table_names, sql_file_paths,
                   py_file_paths, py_file_paths_by_table_name, yaml_files,
                   dags_times_dict, dags_time, rows_to_write, row_tags, output_csv,
                   mlist>>

\* lines 341-346: rows <<dag_id, execution_datetime>>, a later row of the
\* same dag replaces the earlier one
RECURSIVE DictOfRows(_, _)
DictOfRows(rows, d) ==
    IF rows = <<>> THEN d
    ELSE LET dag_id == Strip(Head(rows)[1])
             exec_datetime == Strip(Head(rows)[2])
         IN  DictOfRows(Tail(rows),
                        IF dag_id # <<>>
                        THEN [k \in DOMAIN d \cup {dag_id} |->
                                IF k = dag_id THEN exec_datetime ELSE d[k]]
                        ELSE d)

\* create_dict_from_csv(file_path): {} when the file is missing
create_dict_from_csv(file) ==
    IF file.status = "ok" THEN DictOfRows(file.rows, EmptyDict) ELSE EmptyDict

\* line 457
CreateDictFromCsv ==
    /\ pc = "create_dict_from_csv"
    /\ dags_times_dict' = create_dict_from_csv(dags_times_csv)
    /\ pc' = "write_to_csv"
    /\ UNCHANGED <<envVars, ownerVars, external_table_names, sql_file_paths,
                   py_file_paths, py_file_paths_by_table_name, yaml_files,
                   yaml_airflow_file_paths, dags_time, rows_to_write, row_tags,
                   output_csv, mlist>>

\* line 462
CreateDictFromCsvAgain ==
    /\ pc = "create_dict_from_csv_again"
    /\ dags_time' = create_dict_from_csv(dags_times_csv)
    /\ pc' = "output_csv_to_list"
    /\ UNCHANGED <<envVars, mapVars, ownerVars, rows_to_write, row_tags, output_csv,
                   mlist>>

\* -------------------------------------------------------------------------
\* write_to_csv: the join
\* -------------------------------------------------------------------------
\* all the orders in which a set can be iterated
Orderings(S) ==
    {o \in [1..Cardinality(S) -> S] : \A a, b \in 1..Cardinality(S) : o[a] = o[b] => a = b}

\* {a \o b \o ... : a in the first set, b in the second, ...}
RECURSIVE ConcatChoices(_)
ConcatChoices(sets) ==
    IF sets = <<>> THEN {<<>>}
    ELSE LET rest == ConcatChoices(Tail(sets))
         IN  {a \o b : a \in Head(sets), b \in rest}

\* lines 249-259: the rows of one script
RowsOfScript(table, sql_path, py_path, yaml_paths) ==
    LET associated_yaml_paths == get_paths(yaml_paths, py_path, <<None>>)
    IN  IF ~PyAny(associated_yaml_paths)
        THEN <<<<table, sql_path, py_path, <<>>>>>>
        ELSE [y \in 1..Len(associated_yaml_paths) |->
                IF associated_yaml_paths[y] # None
                THEN <<table, sql_path, py_path, associated_yaml_paths[y]>>
                ELSE <<table, sql_path, py_path, <<>>>>]

\* AllPyPaths from the by-stem map alone
AllPyPaths_StemOnly(table, sql_path, py_paths, py_table_paths) ==
    Range(get_paths(py_paths, sql_path, <<>>)) \ {None}

\* line 242: the set of scripts of one table and one sql path
AllPyPaths(table, sql_path, py_paths, py_table_paths) ==
    LET py_paths_from_sql == get_paths(py_paths, sql_path, <<>>)
        py_paths_from_table == get_paths(py_table_paths, table, <<>>)
    IN  Range(py_paths_from_sql \o py_paths_from_table) \ {None}

\* lines 235-259: the rows of one entry of a table's sql list, for every
\* order in which the set of scripts can be iterated
RowsOfSql(table, sql_path, py_paths, py_table_paths, yaml_paths) ==
    IF sql_path = None THEN {<<<<table, <<>>, <<>>, <<>>>>>>}
    ELSE LET all_py_paths == AllPyPaths(table, sql_path, py_paths, py_table_paths)
         IN  IF all_py_paths = {} THEN {<<<<table, sql_path, <<>>, <<>>>>>>}
             ELSE {Flatten([k \in 1..Len(o) |->
                              RowsOfScript(table, sql_path, o[k], yaml_paths)]) :
                      o \in Orderings(all_py_paths)}

Tagged(rows, t, q) == [k \in 1..Len(rows) |-> [row |-> rows[k], t |-> t, q |-> q]]

\* RowsOfTable that, without a sql path, lists the scripts of the by-table map
RowsOfTable_ScriptsWithoutSql(names, t, sql_paths, py_paths, py_table_paths, yaml_paths) ==
    LET associated_sql_paths == get_paths(sql_paths, names[t], <<None>>)
        scripts == SelectSeq(get_paths(py_table_paths, names[t], <<>>),
                             LAMBDA p : p # None)
    IN  IF ~PyAny(associated_sql_paths)
        THEN IF scripts = <<>>
             THEN {Tagged(<<<<names[t], <<>>, <<>>, <<>>>>>>, t, 0)}
             ELSE {Tagged([k \in 1..Len(scripts) |->
                             <<names[t], <<>>, scripts[k], <<>>>>], t, 0)}
        ELSE ConcatChoices(
               [q \in 1..Len(associated_sql_paths) |->
                  {Tagged(rows, t, q) :
                     rows \in RowsOfSql(names[t], associated_sql_paths[q],
                                        py_paths, py_table_paths, yaml_paths)}])

\* RowsOfTable without the placeholder row of line 231
RowsOfTable_NoPlaceholder(names, t, sql_paths, py_paths, py_table_paths, yaml_paths) ==
    LET associated_sql_paths == get_paths(sql_paths, names[t], <<None>>)
    IN  IF ~PyAny(associated_sql_paths)
        THEN {<<>>}
        ELSE ConcatChoices(
               [q \in 1..Len(associated_sql_paths) |->
                  {Tagged(rows, t, q) :
                     rows \in RowsOfSql(names[t], associated_sql_paths[q],
                                        py_paths, py_table_paths, yaml_paths)}])

\* RowsOfTable with the sql list iterated as a set, in any order
RowsOfTable_SqlSetOrder(names, t, sql_paths, py_paths, py_table_paths, yaml_paths) ==
    LET associated_sql_paths == get_paths(sql_paths, names[t], <<None>>)
    IN  IF ~PyAny(associated_sql_paths)
        THEN {Tagged(<<<<names[t], <<>>, <<>>, <<>>>>>>, t, 0)}
        ELSE UNION {ConcatChoices(
                      [n \in 1..Len(o) |->
                         {Tagged(rows, t, o[n]) :
                            rows \in RowsOfSql(names[t], associated_sql_paths[o[n]],
                                               py_paths, py_table_paths, yaml_paths)}]) :
                      o \in Orderings(1..Len(associated_sql_paths))}

\* lines 228-259: the rows of the table at position t of the catalog, each
\* with the positions t (catalog) and q (sql list, 0 when it has no real
\* entry) of the loops that appended it
RowsOfTable(names, t, sql_paths, py_paths, py_table_paths, yaml_paths) ==
    LET associated_sql_paths == get_paths(sql_paths, names[t], <<None>>)
    IN  IF ~PyAny(associated_sql_paths)
        THEN {Tagged(<<<<names[t], <<>>, <<>>, <<>>>>>>, t, 0)}
        ELSE ConcatChoices(
               [q \in 1..Len(associated_sql_paths) |->
                  {Tagged(rows, t, q) :
                     rows \in RowsOfSql(names[t], associated_sql_paths[q],
                                        py_paths, py_table_paths, yaml_paths)}])

\* lines 225-259: every list rows_to_write can end as
JoinRows(names, sql_paths, py_paths, py_table_paths, yaml_paths) ==
    ConcatChoices([t \in 1..Len(names) |->
                     RowsOfTable(names, t, sql_paths, py_paths, py_table_paths,
                                 yaml_paths)])

ReportHeader ==
    <<<<"external_table_name">>, <<"sql_path">>, <<"py_path">>, <<"yaml_path">>>>

\* write_to_csv(...), called at line 459.  The output path is taken to be
\* writable: the except clauses of lines 270-274 only print and return.
WriteToCsv ==
    /\ pc = "write_to_csv"
    /\ \E tagged \in JoinRows(external_table_names["external_table_names"],
                              sql_file_paths, py_file_paths,
                              py_file_paths_by_table_name, yaml_airflow_file_paths) :
         /\ rows_to_write' = [k \in 1..Len(tagged) |-> tagged[k].row]
         /\ row_tags' = [k \in 1..Len(tagged) |-> <<tagged[k].t, tagged[k].q>>]
    /\ output_csv' = CsvWriteRows(<<ReportHeader>> \o rows_to_write')
    /\ pc' = "create_dict_from_csv_again"
    /\ UNCHANGED <<envVars, mapVars, ownerVars, dags_time, mlist>>

\* -------------------------------------------------------------------------
\* output_csv_to_list and overwrite_csv: the enrichment
\* -------------------------------------------------------------------------
\* output_csv_to_list without the next(reader) that skips the header
output_csv_to_list_WithHeader(text) ==
    SelectSeq(CsvRead(text), LAMBDA row : Len(row) = 4)

\* output_csv_to_list(path): the records after the header that have 4 fields
output_csv_to_list(text) ==
    SelectSeq(Tail(CsvRead(text)), LAMBDA row : Len(row) = 4)

OutputCsvToList ==
    /\ pc = "output_csv_to_list"
    /\ mlist' = output_csv_to_list(output_csv)
    /\ pc' = "overwrite_csv"
    /\ UNCHANGED <<envVars, mapVars, ownerVars, dags_time, rows_to_write, row_tags,
                   output_csv>>

FinalHeader ==
    <<<<"external_table_name">>, <<"sql_file_path">>, <<"dag">>, <<"pod">>,
      <<"dag_time">>, <<"yaml_airflow_files">>, <<"owners">>>>

\* lines 369-372: the row written for one row read back
EnrichedRow(pf, tree, time, row) ==
    IF Len(row[3]) > 0
    THEN <<row[1], format_path_to_relative(row[2]), format_path_to_relative(row[3]),
           get_first_subfolder_from_anchor(pf, row[3]),
           get_paths(time, get_filename_from_path(pf, row[3]), None),
           row[4], StrOfList(extract_owners_from_file(pf, tree, row[3]))>>
    ELSE <<row[1], format_path_to_relative(row[2]), <<>>, <<>>, <<>>, <<>>, <<>>>>

\* overwrite_csv(rows, time, path): the text it leaves in the file
overwrite_csv(pf, tree, rows, time) ==
    CsvWriteRows(<<FinalHeader>>
                 \o [k \in 1..Len(rows) |-> EnrichedRow(pf, tree, time, rows[k])])

OverwriteCsv ==
    /\ pc = "overwrite_csv"
    /\ output_csv' = overwrite_csv(platform, fs, mlist, dags_time)
    /\ pc' = "done"
    /\ UNCHANGED <<envVars, mapVars, ownerVars, dags_time, rows_to_write, row_tags,
                   mlist>>

\* the data rows of the final report
FinalRows == Tail(CsvRead(output_csv))

\* -------------------------------------------------------------------------
\* The report alone: write_to_csv, output_csv_to_list and overwrite_csv on
\* every catalog and every four maps within the bounds
\* -------------------------------------------------------------------------
T1 == <<"A", ".", "B">>
T2 == <<",", ".", "\"">>
S1 == <<"C", ":", "\\", "pipeline", "\\", "q", ".", "sql">>
S2 == <<"r", ".", "sql">>
P1 == <<"C", ":", "\\", "pipeline", "\\", "sales", "\\", "d", ".", "py">>
P2 == <<"e", ".", "py">>
Y1 == <<"c", ".", "yaml">>

ReportTables == {T1, T2}
ReportSqlPaths == {S1, S2}
ReportScripts == {P1, P2}

\* every dict with keys among Keys and values among Vals
Dicts(Keys, Vals) == UNION {[D -> Vals] : D \in SUBSET Keys}

\* keys plus list entries of a dict of lists
RECURSIVE DictSize(_)
DictSize(d) ==
    IF DOMAIN d = {} THEN 0
    ELSE LET k == CHOOSE x \in DOMAIN d : TRUE
         IN  1 + Len(d[k]) + DictSize([x \in DOMAIN d \ {k} |-> d[x]])

\* the dicts of Dicts(Keys, Vals) of at most the given size
BoundedDicts(Keys, Vals, size) ==
    {d \in Dicts(Keys, {v \in Vals : 1 + Len(v) <= size}) : DictSize(d) <= size}

\* the script of P1 on disk: two owners under one tag
ReportTree ==
    <<[dir |-> <<"C", ":", "\\", "pipeline", "\\", "sales">>,
       name |-> <<"d", ".", "py">>,
       lines |-> <<<<"#", " ", "O", "w", "n", "e", "r", ":">>,
                   <<"#", " ", "b", "@", "x", ",", " ", "a", "@", "x">>>>,
       readable |-> TRUE]>>

\* the execution-time csv: one row for the dag "d"
ReportTimes ==
    [status |-> "ok", rows |-> <<<<<<" ", "d">>, <<"2", "0", "2", "5", " ">>>>>>]

\* The keys write_to_csv looks up, given the catalog and the maps read before:
\* a dict is only ever read with dict.get on these, so the other keys of a
\* map cannot change a row and are left out of the maps drawn.
TablesLookedUp(names, sql_paths) ==
    {t \in Range(names) : PyAny(get_paths(sql_paths, t, <<None>>))}

SqlLookedUp(names, sql_paths) ==
    UNION {Range(sql_paths[t]) \ {None} : t \in TablesLookedUp(names, sql_paths)}

ScriptsLookedUp(names, sql_paths, py_paths, py_table_paths) ==
    UNION {UNION {AllPyPaths(t, q, py_paths, py_table_paths) :
                     q \in Range(sql_paths[t]) \ {None}} :
             t \in TablesLookedUp(names, sql_paths)}

InitReport ==
    /\ pc = "write_to_csv"
    /\ platform = "nt"
    /\ fs = ReportTree
    /\ input_csv = Missing
    /\ dags_times_csv = ReportTimes
    /\ \E names \in SeqsUpTo(ReportTables, MaxCatalog) :
         external_table_names = [k \in {"external_table_names"} |-> names]
    /\ LET names == external_table_names["external_table_names"]
       IN  /\ sql_file_paths
                \in BoundedDicts(Range(names),
                                 SeqsUpTo(ReportSqlPaths \cup {None}, MaxList),
                                 MaxSize - Len(names))
           /\ py_file_paths_by_table_name
                \in BoundedDicts(TablesLookedUp(names, sql_file_paths),
                                 SeqsUpTo(ReportScripts \cup {None}, MaxList),
                                 MaxSize - Len(names) - DictSize(sql_file_paths))
           /\ py_file_paths
                \in BoundedDicts(SqlLookedUp(names, sql_file_paths),
                                 SeqsUpTo(ReportScripts \cup {None}, MaxList),
                                 MaxSize - Len(names) - DictSize(sql_file_paths)
                                   - DictSize(py_file_paths_by_table_name))
           /\ yaml_airflow_file_paths
                \in BoundedDicts(ScriptsLookedUp(names, sql_file_paths, py_file_paths,
                                                 py_file_paths_by_table_name),
                                 SeqsUpTo({None, <<>>, Y1}, MaxList),
                                 MaxSize - Len(names) - DictSize(sql_file_paths)
                                   - DictSize(py_file_paths_by_table_name)
                                   - DictSize(py_file_paths))
    /\ yaml_files = Unset
    /\ dags_times_dict = Unset
    /\ dags_time = Unset
    /\ rows_to_write = Unset
    /\ row_tags = Unset
    /\ output_csv = Missing
    /\ mlist = Unset
    /\ owner_file = Unset
    /\ owner_blocks = Unset
    /\ owner_emails = Unset

NextReport == WriteToCsv \/ CreateDictFromCsvAgain \/ OutputCsvToList \/ OverwriteCsv

SpecReport == InitReport /\ [][NextReport]_vars

\* write_to_csv alone, on the same inputs
NextJoin == WriteToCsv

SpecJoin == InitReport /\ [][NextJoin]_vars

\* write_to_csv on maps where the by-table map may list scripts for any table
\* of the catalog, also for one that the sql map does not reference
InitUnreferenced ==
    /\ pc = "write_to_csv"
    /\ platform = "nt"
    /\ fs = ReportTree
    /\ input_csv = Missing
    /\ dags_times_csv = ReportTimes
    /\ \E names \in SeqsUpTo(ReportTables, MaxCatalog) :
         external_table_names = [k \in {"external_table_names"} |-> names]
    /\ LET names == external_table_names["external_table_names"]
       IN  /\ sql_file_paths
                \in BoundedDicts(Range(names), SeqsUpTo({S1, None}, MaxList),
                                 MaxSize - Len(names))
           /\ py_file_paths_by_table_name
                \in BoundedDicts(Range(names),
                                 SeqsUpTo(ReportScripts \cup {None}, MaxList),
                                 MaxSize - Len(names) - DictSize(sql_file_paths))
           /\ py_file_paths
                \in BoundedDicts(SqlLookedUp(names, sql_file_paths),
                                 SeqsUpTo(ReportScripts, 1),
                                 MaxSize - Len(names) - DictSize(sql_file_paths)
                                   - DictSize(py_file_paths_by_table_name))
           /\ yaml_airflow_file_paths
                \in BoundedDicts(ScriptsLookedUp(names, sql_file_paths, py_file_paths,
                                                 py_file_paths_by_table_name),
                                 SeqsUpTo({None, Y1}, 1),
                                 MaxSize - Len(names) - DictSize(sql_file_paths)
                                   - DictSize(py_file_paths_by_table_name)
                                   - DictSize(py_file_paths))
    /\ yaml_files = Unset
    /\ dags_times_dict = Unset
    /\ dags_time = Unset
    /\ rows_to_write = Unset
    /\ row_tags = Unset
    /\ output_csv = Missing
    /\ mlist = Unset
    /\ owner_file = Unset
    /\ owner_blocks = Unset
    /\ owner_emails = Unset

SpecUnreferenced == InitUnreferenced /\ [][NextJoin]_vars

\* -------------------------------------------------------------------------
\* The whole run of __main__ (lines 430-466) on a small tree
\* -------------------------------------------------------------------------
TreeDir(pf) ==
    IF pf = "nt" THEN <<"C", ":", "\\", "pipeline", "\\", "sales">>
    ELSE <<"/", "pipeline", "/", "sales">>

NameAB == <<"A", ".", "B">>
NameABC == <<"A", ".", "B", "C">>

YamlCall ==
    <<"yaml", ".", "safe_", "load", "(", "open", "(", "'", "c", ".", "yaml", "'", ")", ")">>

EmptyYamlCall == <<"yaml", ".", "load", "(", "open", "(", QUOTE, QUOTE, ")", ")">>

\* The files a tree is drawn from: sql files that name one table or two, the
\* excluded table_list.sql, an unreadable sql file, and two scripts
TreeFiles(pf) ==
    {[dir |-> TreeDir(pf), name |-> <<"q", ".", "sql">>,
      lines |-> <<<<"f", "r", "o", "m", " ">> \o NameABC>>, readable |-> TRUE],
     [dir |-> TreeDir(pf), name |-> <<"r", ".", "sql">>,
      lines |-> <<NameAB>>, readable |-> TRUE],
     [dir |-> TreeDir(pf), name |-> <<"table_list", ".", "sql">>,
      lines |-> <<NameAB>>, readable |-> TRUE],
     [dir |-> TreeDir(pf), name |-> <<"u", ".", "sql">>,
      lines |-> <<NameAB>>, readable |-> FALSE],
     [dir |-> TreeDir(pf), name |-> <<"d", ".", "py">>,
      lines |-> <<<<"q", " ", "q">>,
                  <<"#", " ", "O", "w", "n", "e", "r", ":">>,
                  <<"#", " ", "b", "@", "x", ",", " ", "a", "@", "x">>,
                  YamlCall>>,
      readable |-> TRUE],
     [dir |-> TreeDir(pf), name |-> <<"e", ".", "py">>,
      lines |-> <<NameAB \o <<" ", "r">>, EmptyYamlCall, <<".", "yaml">>>>,
      readable |-> TRUE]}

\* every walk order of every tree of at most MaxFiles of these files
Trees(pf) ==
    {t \in SeqsUpTo(TreeFiles(pf), MaxFiles) :
        \A a, b \in 1..Len(t) : t[a] = t[b] => a = b}

CatalogHeader == <<<<"id">>, <<"schema">>, <<"table">>>>

\* data rows: A.B, A.B again (after strip), A.BC, and a row of two columns
CatalogRows ==
    {<<<<"x">>, <<"A">>, <<"B">>>>,
     <<<<"x">>, <<" ", "A", " ">>, <<"B">>, <<"z">>>>,
     <<<<"x">>, <<"A">>, <<"B", "C">>>>,
     <<<<"x">>, <<"y">>>>}

CatalogFiles ==
    {Missing, Unreadable, <<>>}
    \cup {CsvWriteRows(<<CatalogHeader>> \o rows) : rows \in SeqsUpTo(CatalogRows, MaxRows)}

Init ==
    /\ pc = "get_external_table_names_from_csv"
    /\ platform \in {"nt", "posix"}
    /\ fs \in Trees(platform)
    /\ input_csv \in CatalogFiles
    /\ dags_times_csv \in {[status |-> "missing", rows |-> <<>>], ReportTimes}
    /\ external_table_names = Unset
    /\ sql_file_paths = Unset
    /\ py_file_paths = Unset
    /\ py_file_paths_by_table_name = Unset
    /\ yaml_files = Unset
    /\ yaml_airflow_file_paths = Unset
    /\ dags_times_dict = Unset
    /\ dags_time = Unset
    /\ rows_to_write = Unset
    /\ row_tags = Unset
    /\ output_csv = Missing
    /\ mlist = Unset
    /\ owner_file = Unset
    /\ owner_blocks = Unset
    /\ owner_emails = Unset

Next ==
    \/ GetExternalTableNamesFromCsv
    \/ FindStringsInSqlFiles
    \/ FindDictStringsInPyFiles
    \/ FindListStringsInPyFiles
    \/ FindYamlFiles
    \/ FindYamlPathsInFiles
    \/ CreateDictFromCsv
    \/ WriteToCsv
    \/ CreateDictFromCsvAgain
    \/ OutputCsvToList
    \/ OverwriteCsv

Spec == Init /\ [][Next]_vars

\* The loader and the two scanners that follow it, lines 430-438, on the
\* same inputs
NextScan ==
    \/ GetExternalTableNamesFromCsv
    \/ FindStringsInSqlFiles
    \/ FindDictStringsInPyFiles

SpecScan == Init /\ [][NextScan]_vars

\* -------------------------------------------------------------------------
\* extract_owners_from_file alone, on files of a few lines
\* -------------------------------------------------------------------------
LineOwnerA ==
    <<"o", "w", "n", "e", "r", ":", " ", "a", "@", "x", ".", "c", "o", "m">>
LineNextB ==
    <<"n", "e", "x", "t", ":", " ", "b", "@", "x", ".", "c", "o", "m">>
LineStateFoo == <<"S", "t", "a", "t", "e", ":", " ", "f", "o", "o">>
LineOwnerC ==
    <<"o", "w", "n", "e", "r", ":", " ", "c", "@", "x", ".", "c", "o", "m">>
LineState == <<"S", "t", "a", "t", "e", ":">>
LineTwoEmails ==
    <<"b", "@", "x", ".", "c", "o", "m", " ", "a", "@", "x", ".", "c", "o",
      "m">>
LineOwnerOnly == <<"O", "w", "n", "e", "r", ":">>

OwnerLines ==
    {LineOwnerA, LineNextB, LineStateFoo, LineOwnerC, LineState, LineTwoEmails,
     LineOwnerOnly}

\* the characters of the lines that probe the section pattern: a letter, a
\* digit, an underscore, the colon, the two markers and a blank
ProbeChars == {"K", "2", "_", ":", "*", "#", " "}

\* an owner tag, one line of at most MaxProbeLen of these characters, and a
\* line with an email
ProbeFiles ==
    {<<LineOwnerOnly, x, LineTwoEmails>> : x \in SeqsUpTo(ProbeChars, MaxProbeLen)}

OwnerFiles ==
    {[status |-> "missing", lines |-> <<>>]}
    \cup {[status |-> "ok", lines |-> l] :
            l \in SeqsUpTo(OwnerLines, MaxLines) \cup ProbeFiles}

InitOwners ==
    /\ pc = "extract_owners_from_file"
    /\ owner_file \in OwnerFiles
    /\ owner_blocks = <<>>
    /\ owner_emails = <<>>
    /\ platform = "nt"
    /\ fs = <<>>
    /\ input_csv = Missing
    /\ dags_times_csv = [status |-> "missing", rows |-> <<>>]
    /\ external_table_names = Unset
    /\ sql_file_paths = Unset
    /\ py_file_paths = Unset
    /\ py_file_paths_by_table_name = Unset
    /\ yaml_files = Unset
    /\ yaml_airflow_file_paths = Unset
    /\ dags_times_dict = Unset
    /\ dags_time = Unset
    /\ rows_to_write = Unset
    /\ row_tags = Unset
    /\ output_csv = Missing
    /\ mlist = Unset

\* extract_owners_from_file(filepath): lines 293-329
ExtractOwnersFromFile ==
    /\ pc = "extract_owners_from_file"
    /\ IF owner_file.status = "ok"
       THEN /\ owner_blocks' = OwnerBlocks(ReadLines(owner_file.lines))
            /\ owner_emails' = OwnersOfLines(ReadLines(owner_file.lines))
       ELSE /\ owner_blocks' = <<>>
            /\ owner_emails' = <<>>
    /\ pc' = "returned"
    /\ UNCHANGED <<envVars, mapVars, owner_file, dags_time, rows_to_write, row_tags,
                   output_csv, mlist>>

NextOwners == ExtractOwnersFromFile

SpecOwners == InitOwners /\ [][NextOwners]_vars

\* =========================================================================
\* The claims
\* =========================================================================
Catalog == external_table_names["external_table_names"]

Joined == pc \in {"create_dict_from_csv_again", "output_csv_to_list", "overwrite_csv", "done"}

\* C1: when the join, the read-back and the enrichment have all run, every
\* table name of the catalog is the first field of at least one row of the
\* final report, whatever the four maps hold.
C1_CatalogCompleteness ==
    pc = "done" =>
        \A t \in 1..Len(Catalog) :
            \E k \in 1..Len(FinalRows) :
                Len(FinalRows[k]) = 7 /\ FinalRows[k][1] = Catalog[t]

\* a catalog of two tables, the first without any sql file, the other one
\* (its name holds a comma and a quote) joined down to a config path
C1_Witness ==
    /\ pc = "done"
    /\ Catalog = <<T1, T2>>
    /\ T1 \notin DOMAIN sql_file_paths
    /\ \E k \in 1..Len(rows_to_write) :
          rows_to_write[k][1] = T2 /\ rows_to_write[k][4] = Y1

\* the rows appended while the loops were at catalog position t, sql entry q
BlockOf(t, q) ==
    LET at == {k \in 1..Len(rows_to_write) : row_tags[k] = <<t, q>>}
    IN  [r \in {rows_to_write[k] : k \in at} |->
           Cardinality({k \in at : rows_to_write[k] = r})]

\* U of the claim: the scripts of the by-stem list of S and the by-table list of T
ScriptUnion(T, S) ==
    {p \in (IF S \in DOMAIN py_file_paths THEN Range(py_file_paths[S]) ELSE {})
           \cup (IF T \in DOMAIN py_file_paths_by_table_name
                 THEN Range(py_file_paths_by_table_name[T]) ELSE {}) : p # None}

ConfigList(P) ==
    IF P \in DOMAIN yaml_airflow_file_paths THEN yaml_airflow_file_paths[P] ELSE <<>>

\* how often the claim as written has the row r emitted for (T, S)
ClaimedCount(T, S, r) ==
    IF r[1] # T \/ r[2] # S THEN 0
    ELSE IF ScriptUnion(T, S) = {} THEN (IF r[3] = <<>> /\ r[4] = <<>> THEN 1 ELSE 0)
    ELSE IF r[3] \notin ScriptUnion(T, S) THEN 0
    ELSE LET ys == ConfigList(r[3])
             nonnull == {y \in 1..Len(ys) : ys[y] # None}
         IN  IF nonnull = {} THEN (IF r[4] = <<>> THEN 1 ELSE 0)
             ELSE Cardinality({y \in nonnull : ys[y] = r[4]})

\* the same with the two changes of the amended claim: a list of nulls and
\* empty strings only counts as no config, and a null entry beside a path
\* gives a row with an empty config field
AmendedCount(T, S, r) ==
    IF r[1] # T \/ r[2] # S THEN 0
    ELSE IF ScriptUnion(T, S) = {} THEN (IF r[3] = <<>> /\ r[4] = <<>> THEN 1 ELSE 0)
    ELSE IF r[3] \notin ScriptUnion(T, S) THEN 0
    ELSE LET ys == ConfigList(r[3])
         IN  IF \A y \in 1..Len(ys) : ys[y] \in {None, <<>>}
             THEN (IF r[4] = <<>> THEN 1 ELSE 0)
             ELSE Cardinality({y \in 1..Len(ys) :
                                 IF ys[y] = None THEN r[4] = <<>> ELSE ys[y] = r[4]})

\* the rows either reading can ask for
CandidateRows(T, S) ==
    {<<T, S, p, c>> : p \in ReportScripts \cup {<<>>}, c \in {<<>>, Y1}}

RealSqlEntries(t) ==
    LET sqls == get_paths(sql_file_paths, Catalog[t], <<>>)
    IN  {q \in 1..Len(sqls) : sqls[q] # None}

\* C2 as written: for every catalog table T and every real sql path S of its
\* list, the join emits one row (T, S, '', '') if U is empty, else for each
\* script P of U one row (T, S, P, '') if P's config list is absent or holds
\* no non-null path, else exactly one row (T, S, P, C) per non-null config
\* path C, and no other row.
C2_FanOutAsWritten ==
    Joined =>
        \A t \in 1..Len(Catalog) : \A q \in RealSqlEntries(t) :
            LET T == Catalog[t]
                S == sql_file_paths[T][q]
                block == BlockOf(t, q)
            IN  \A r \in CandidateRows(T, S) \cup DOMAIN block :
                    (IF r \in DOMAIN block THEN block[r] ELSE 0) = ClaimedCount(T, S, r)

\* C2 amended: the same, except that P gets the single row (T, S, P, '') when
\* its config list is absent or holds no non-empty path (only nulls or empty
\* strings), and otherwise one row per entry of the list: (T, S, P, C) for a
\* non-null entry C and (T, S, P, '') for a null entry.
C2_FanOut ==
    Joined =>
        \A t \in 1..Len(Catalog) : \A q \in RealSqlEntries(t) :
            LET T == Catalog[t]
                S == sql_file_paths[T][q]
                block == BlockOf(t, q)
            IN  \A r \in CandidateRows(T, S) \cup DOMAIN block :
                    (IF r \in DOMAIN block THEN block[r] ELSE 0) = AmendedCount(T, S, r)

\* a script of U whose config list holds a null beside a config path
C2_Witness ==
    /\ Joined
    /\ \E t \in 1..Len(Catalog) : \E q \in RealSqlEntries(t) :
          LET T == Catalog[t]
              S == sql_file_paths[T][q]
          IN  \E P \in ScriptUnion(T, S) :
                 /\ P \in DOMAIN yaml_airflow_file_paths
                 /\ {None, Y1} \subseteq Range(yaml_airflow_file_paths[P])
                 /\ <<T, S, P, Y1>> \in Range(rows_to_write)
                 /\ <<T, S, P, <<>>>> \in Range(rows_to_write)

\* C10: the rows of the table at catalog position i all precede the rows of
\* the table at position j > i, and within one table the rows of an earlier
\* entry of its sql list all precede those of a later entry, in whatever
\* order the set of scripts is iterated; each row carries the table and the
\* sql path of the positions that produced it.
C10_RowOrder ==
    Joined =>
        /\ \A a, b \in 1..Len(rows_to_write) :
              a < b => \/ row_tags[a][1] < row_tags[b][1]
                       \/ /\ row_tags[a][1] = row_tags[b][1]
                          /\ row_tags[a][2] <= row_tags[b][2]
        /\ \A k \in 1..Len(rows_to_write) :
              LET t == row_tags[k][1]
                  q == row_tags[k][2]
              IN  /\ t \in 1..Len(Catalog)
                  /\ rows_to_write[k][1] = Catalog[t]
                  /\ q # 0 =>
                       LET entry == sql_file_paths[Catalog[t]][q]
                       IN  rows_to_write[k][2] = (IF entry = None THEN <<>> ELSE entry)
        /\ \A t \in 1..Len(Catalog) : \E k \in 1..Len(rows_to_write) : row_tags[k][1] = t

\* two tables, the first with two sql paths and two scripts per path
C10_Witness ==
    /\ Joined
    /\ Catalog = <<T1, T2>>
    /\ T1 \in DOMAIN sql_file_paths
    /\ sql_file_paths[T1] = <<S1, S2>>
    /\ \E a, b \in 1..Len(rows_to_write) :
          /\ a < b
          /\ row_tags[a] = <<1, 2>>
          /\ row_tags[b] = <<1, 2>>
          /\ rows_to_write[a][3] = P2
          /\ rows_to_write[b][3] = P1
    /\ \E k \in 1..Len(rows_to_write) : rows_to_write[k][1] = T2

\* the catalog has been loaded and the driver has gone on
Loaded == pc \notin {"get_external_table_names_from_csv", "aborted"}

SqlScanned ==
    pc \notin {"get_external_table_names_from_csv", "find_strings_in_sql_files", "aborted"}

StemCorrelated ==
    /\ SqlScanned
    /\ pc # "find_dict_strings_in_py_files"

\* C3 as written: when the catalog csv is missing or cannot be read, no stage
\* of the driver aborts on an error.
C3_MissingCatalogNonFatal ==
    input_csv \in {Missing, Unreadable} => pc # "aborted"

\* the driver has aborted on a missing catalog after the loader returned {}
C3_Witness ==
    /\ input_csv = Missing
    /\ pc = "aborted"
    /\ external_table_names = EmptyDict

\* the files the claim has in the list of table T
SqlFilesNaming(T) ==
    {FilePath(platform, fs[n]) :
       n \in {m \in 1..Len(fs) :
                /\ EndsWith(fs[m].name, <<".", "sql">>)
                /\ fs[m].name # <<"table_list", ".", "sql">>
                /\ fs[m].readable
                /\ Contains(FileText(fs[m]), T)}}

\* C6: the map the sql scanner returns has a key for every table name of its
\* input list, the list under T holds exactly the paths of the readable files
\* named *.sql, other than table_list.sql, whose text contains T, and the
\* path of a file named table_list.sql is in no list.
C6_SqlScannerResult ==
    SqlScanned =>
        /\ DOMAIN sql_file_paths = Range(Catalog)
        /\ \A T \in DOMAIN sql_file_paths : Range(sql_file_paths[T]) = SqlFilesNaming(T)
        /\ \A n \in 1..Len(fs) :
              fs[n].name = <<"table_list", ".", "sql">> =>
                 \A T \in DOMAIN sql_file_paths :
                    FilePath(platform, fs[n]) \notin Range(sql_file_paths[T])

\* a tree with a table_list.sql that names a table of the catalog, beside a
\* sql file that names it too, and a table of the catalog that no file names
C6_Witness ==
    /\ SqlScanned
    /\ \E n \in 1..Len(fs) :
          /\ fs[n].name = <<"table_list", ".", "sql">>
          /\ fs[n].readable
          /\ \E T \in DOMAIN sql_file_paths :
                /\ Contains(FileText(fs[n]), T)
                /\ sql_file_paths[T] # <<>>
    /\ \E T \in DOMAIN sql_file_paths : sql_file_paths[T] = <<>>

\* C7: in the map find_dict_strings_in_py_files returns, no script path
\* occurs twice in the list of any sql path, whether the input lists repeat a
\* sql path or share it between tables and however often the script text
\* holds the stem.
C7_ByStemUnique ==
    StemCorrelated =>
        \A S \in DOMAIN py_file_paths :
            \A a, b \in 1..Len(py_file_paths[S]) :
                a # b => py_file_paths[S][a] # py_file_paths[S][b]

\* a sql path twice in the list of a table, and a script whose text holds
\* its stem twice
C7_Witness ==
    /\ StemCorrelated
    /\ \E T \in DOMAIN sql_file_paths :
          /\ Len(sql_file_paths[T]) = 2
          /\ sql_file_paths[T][1] = sql_file_paths[T][2]
          /\ sql_file_paths[T][1] \in DOMAIN py_file_paths
          /\ \E n \in 1..Len(fs) :
                /\ py_file_paths[sql_file_paths[T][1]] = <<FilePath(platform, fs[n])>>
                /\ Cardinality({i \in 1..Len(FileText(fs[n])) :
                      StartsWithAt(FileText(fs[n]), i,
                                   get_filename_from_path(platform, sql_file_paths[T][1]))}) >= 2

\* C9 as written: the catalog the loader returns holds each SCHEMA.TABLE
\* identifier at most once, whatever the rows of the csv.
C9_CatalogUnique ==
    (Loaded /\ ~NamesIsNone) =>
        \A a, b \in 1..Len(Catalog) : a # b => Catalog[a] # Catalog[b]

\* two data rows with the same schema and table, and the join done
C9_Witness ==
    /\ Joined
    /\ ~NamesIsNone
    /\ Len(Catalog) = 2
    /\ Catalog[1] = Catalog[2]
    /\ \E a, b \in 1..Len(rows_to_write) : a # b /\ rows_to_write[a] = rows_to_write[b]

EmailA == <<"a", "@", "x", ".", "c", "o", "m">>

EmailB == <<"b", "@", "x", ".", "c", "o", "m">>

EmailC == <<"c", "@", "x", ".", "c", "o", "m">>

ExampleFile == <<LineOwnerA, LineNextB, LineStateFoo, LineOwnerC>>

Returned == pc = "returned" /\ owner_file.status = "ok"

\* C4 as written: on the four-line file owner: a@x.com / next: b@x.com /
\* State: foo / owner: c@x.com the extraction returns a@x.com, b@x.com,
\* c@x.com.
C4_ExampleAsWritten ==
    (Returned /\ owner_file.lines = ExampleFile) =>
        owner_emails = <<EmailA, EmailB, EmailC>>

\* C4 amended: on that file the extraction returns exactly b@x.com, c@x.com;
\* the email on the first owner line is not read, since a scan starts on the
\* line after the tag.
C4_Example ==
    (Returned /\ owner_file.lines = ExampleFile) =>
        owner_emails = <<EmailB, EmailC>>

\* the example file scanned: two owner tags, the first block running to the
\* end of the file through the State: foo line
C4_Witness ==
    /\ Returned
    /\ owner_file.lines = ExampleFile
    /\ Len(owner_blocks) = 2
    /\ Len(owner_blocks[1][2]) = 3

Markers == {<<>>, <<"*", "*">>, <<"#">>}

\* s is lead, w1 blanks, a key of characters of the class, a colon, w2
\* blanks, trail, for some markers lead and trail
SectionShape(s, InKey(_), blanks) ==
    \E c \in {k \in 1..Len(s) : s[k] = ":"} :
        \E lead, trail \in Markers : \E w1 \in 0..(IF blanks THEN c ELSE 0) :
            LET w2 == Len(s) - c - Len(trail)
                key == Len(lead) + w1 + 1
            IN  /\ key <= c - 1
                /\ w2 >= 0
                /\ blanks \/ w2 = 0
                /\ SubSeq(s, 1, Len(lead)) = lead
                /\ \A k \in (Len(lead) + 1)..(key - 1) : IsSpace(s[k])
                /\ \A k \in key..(c - 1) : InKey(s[k])
                /\ \A k \in (c + 1)..(c + w2) : IsSpace(s[k])
                /\ SubSeq(s, c + w2 + 1, Len(s)) = trail

\* the terminator of the claim as written: marker, word characters (letters,
\* digits or underscore), colon, marker, and nothing else
ClaimedTerminator(s) == SectionShape(s, IsWordChar, FALSE)

\* the terminator of the amended claim: marker, optional blanks, letters or
\* underscores, colon, optional blanks, marker
AmendedTerminator(s) == SectionShape(s, IsKeyChar, TRUE)

\* the lines after line i up to, not including, the first terminator
BlockLines(lines, i, Terminator(_)) ==
    LET ends == [k \in 1..Len(lines) |-> Terminator(Strip(lines[k]))]
    IN  {j \in (i + 1)..Len(lines) : \A k \in (i + 1)..j : ~ends[k]}

LinesScanned(b) == {owner_blocks[b][2][k][1] : k \in 1..Len(owner_blocks[b][2])}

\* C5 as written: scanning forward from an owner line, a line ends the block
\* iff, trimmed, it is an optional leading ** or #, one or more word
\* characters (letters, digits or underscore), a colon and an optional
\* trailing ** or #; every line before the first such line is harvested.
C5_TerminatorAsWritten ==
    Returned =>
        \A b \in 1..Len(owner_blocks) :
            LinesScanned(b) = BlockLines(owner_file.lines, owner_blocks[b][1], ClaimedTerminator)

\* C5 amended: a line ends the block iff, trimmed, it is an optional leading
\* ** or #, optional whitespace, one or more letters or underscores (no
\* digit), a colon, optional whitespace and an optional trailing ** or #;
\* every line before the first such line is harvested, a line with further
\* content after the colon included.
C5_Terminator ==
    Returned =>
        \A b \in 1..Len(owner_blocks) :
            /\ LinesScanned(b) = BlockLines(owner_file.lines, owner_blocks[b][1], AmendedTerminator)
            /\ \A k \in 1..Len(owner_blocks[b][2]) :
                  owner_blocks[b][2][k][2] =
                     email_pattern(ReadLines(owner_file.lines)[owner_blocks[b][2][k][1]], 1)

\* a key with a digit was scanned past and the emails after it harvested,
\* and in the example file the line next: b@x.com was harvested
C5_Witness ==
    /\ Returned
    /\ owner_file.lines = <<LineOwnerOnly, <<"K", "2", ":">>, LineTwoEmails>>
    /\ owner_emails = <<EmailA, EmailB>>

\* the emails on the lines of every owner block
EmailsOfBlocks(lines) ==
    UNION {Range(email_pattern(lines[j], 1)) :
             j \in UNION {BlockLines(lines, i, AmendedTerminator) :
                            i \in {n \in 1..Len(lines) : owner_tag_pattern(lines[n])}}}

\* C8: the list owner extraction returns is in strictly ascending
\* lexicographic order, so without a repeated email, and holds exactly the
\* emails found on the lines of every owner block of the file (the lines
\* after a line with owner:, in any case, up to the terminator), not only
\* those of the first block.
C8_OwnerResultShape ==
    Returned =>
        /\ \A a, b \in 1..Len(owner_emails) :
              a < b => StrLess(owner_emails[a], owner_emails[b])
        /\ Range(owner_emails) = EmailsOfBlocks(owner_file.lines)

\* two blocks: the first harvests b@x.com and ends at the terminator Owner:,
\* which opens the second, and that harvests b@x.com again and a@x.com
C8_Witness ==
    /\ Returned
    /\ owner_file.lines = <<LineOwnerA, LineNextB, LineOwnerOnly, LineTwoEmails>>
    /\ Len(owner_blocks) = 2
    /\ OwnerEmailsOf(owner_blocks) = <<EmailB, EmailB, EmailA>>
    /\ owner_emails = <<EmailA, EmailB>>

\* the sql map has no key for T, or an empty list, or null placeholders only
NoSqlReference(T) ==
    \/ T \notin DOMAIN sql_file_paths
    \/ \A q \in 1..Len(sql_file_paths[T]) : sql_file_paths[T][q] = None

\* C11: for a table T of the catalog that the sql map does not reference (no
\* key, an empty list, or null placeholders only), the join emits, for each
\* entry of the catalog that names T, exactly one row, equal to
\* (T, '', '', ''), whatever scripts the by-table map lists for T; no row of
\* T holds a script.
C11_UnreferencedTable ==
    Joined =>
        \A T \in Range(Catalog) :
            NoSqlReference(T) =>
                /\ Cardinality({k \in 1..Len(rows_to_write) : rows_to_write[k][1] = T})
                     = Cardinality({t \in 1..Len(Catalog) : Catalog[t] = T})
                /\ \A k \in 1..Len(rows_to_write) :
                      rows_to_write[k][1] = T =>
                         rows_to_write[k] = <<T, <<>>, <<>>, <<>>>>

\* a table with a list of one null placeholder and a table without a key,
\* each with a script in the by-table map, and one row for each
C11_Witness ==
    /\ Joined
    /\ Catalog = <<T1, T2>>
    /\ T1 \in DOMAIN sql_file_paths
    /\ sql_file_paths[T1] = <<None>>
    /\ T2 \notin DOMAIN sql_file_paths
    /\ T1 \in DOMAIN py_file_paths_by_table_name
    /\ T2 \in DOMAIN py_file_paths_by_table_name
    /\ py_file_paths_by_table_name[T1] = <<P1>>
    /\ py_file_paths_by_table_name[T2] = <<P2>>
    /\ rows_to_write = <<<<T1, <<>>, <<>>, <<>>>>, <<T2, <<>>, <<>>, <<>>>>>>

\* the trimmed path from its first \pipeline on, or the trimmed path
NormalizedPath(p) ==
    LET s == Strip(p)
        at == {i \in 1..Len(s) : StartsWithAt(s, i, <<"\\", "pipeline">>)}
    IN  IF at = {} THEN s
        ELSE SubSeq(s, CHOOSE i \in at : \A m \in at : i <= m, Len(s))

\* C12: the file the enrichment leaves holds, after the header, exactly one
\* row of 7 fields per row the join wrote, in the same order and with the
\* same table name; a row without script holds the table name, the
\* normalized sql path and five empty fields, and a row with a script holds
\* its config path unchanged in the sixth field.
C12_EnrichmentPreservesRows ==
    pc = "done" =>
        /\ Len(FinalRows) = Len(rows_to_write)
        /\ \A k \in 1..Len(rows_to_write) :
              LET r == rows_to_write[k]
                  f == FinalRows[k]
              IN  /\ Len(f) = 7
                  /\ f[1] = r[1]
                  /\ IF r[3] = <<>>
                     THEN f = <<r[1], NormalizedPath(r[2]), <<>>, <<>>, <<>>, <<>>, <<>>>>
                     ELSE f[6] = r[4]

\* a table whose name needs quoting, with a sql path without script, cut to
\* \pipeline\q.sql, and a sql path with a script, its config and its owners
C12_Witness ==
    /\ pc = "done"
    /\ rows_to_write = <<<<T2, S1, <<>>, <<>>>>, <<T2, S2, P1, Y1>>>>
    /\ Len(FinalRows) = 2
    /\ FinalRows[1] = <<T2, <<"\\", "pipeline", "\\", "q", ".", "sql">>,
                        <<>>, <<>>, <<>>, <<>>, <<>>>>
    /\ FinalRows[2][6] = Y1
    /\ FinalRows[2][4] = <<"sales">>
    /\ FinalRows[2][7] # <<>>

====
